---- MODULE Spec2Model ----
(***************************************************************************)
(* Model of the grid path planner (src/astar.py) and of the speed-limit    *)
(* solver (src/speed_limit_calculator.py).                                 *)
(*                                                                         *)
(* Cells are pairs <<x, y>> with x the row and y the column, both 0-based  *)
(* as in the source; grid[x][y] of the source is grid[x + 1][y + 1] here.  *)
(*                                                                         *)
(* Costs.  The source computes g, h and f in floating point, as sums of    *)
(* whole steps and Euclidean distances sqrt(d2) with d2 an integer.  A     *)
(* cost is kept here in exact symbolic form, [whole |-> n, roots |-> r],   *)
(* standing for n + sqrt(r[1]) + ... + sqrt(r[k]).  Two costs with at most *)
(* one root each are compared exactly (CostLess); every f the source ever  *)
(* compares has that form, because g is a whole number in every reachable  *)
(* state (invariant GWhole).                                               *)
(***************************************************************************)
EXTENDS Integers, Sequences, FiniteSets, TLC

\* ------------------------------------------------------------------ bounds
MaxCells == 6
MaxPasses == 2
MaxLosCells == 9
LongRows == 2
LongCols == 12
MaxSamples == 3

\* samples of a straight trajectory
MaxFlatSamples == 5

\* waypoints of a path handed to process_path, and their largest coordinate
MaxWaypoints == 3
MaxCoord == 2

\* the largest lead distance of smooth_path, and the largest distance asked
\* of one walker over all its moves
MaxMove == 2
MaxRequested == 10

\* significant bits of a floating-point distance (53 in a Python float)
MantissaBits == 3

\* the resolution of the lengths handed to smooth_path: units of the model
\* in one centimetre
UnitsPerCm == 2

\* the largest search window of a PathNavigator
MaxWindow == 4

\* the largest coordinate of a path handed to split_long_segments alone, and
\* the largest max_length it is called with
MaxSplitCoord == 3
MaxLength == 3

\* --------------------------------------------------------------- constants
Precision == 10 * 100
DefaultMaxLength == 10
DefaultPasses == 5

VARIABLES grid, start, end, theta, open_list, closed_list, pc, path, optimized, los,
          params, distances, speed_limits,
          waypoints, path_segments, smoothed, walker, requested, navigator

vars == <<grid, start, end, theta, open_list, closed_list, pc, path, optimized, los,
          params, distances, speed_limits,
          waypoints, path_segments, smoothed, walker, requested, navigator>>

\* the variables of calculate_speed_limits
speed_vars == <<params, distances, speed_limits>>

\* no speed computation is under way
SpeedIdle == params = <<>> /\ distances = <<>> /\ speed_limits = <<>>

\* the variables of path_processor.py and path_navigator.py
track_vars == <<waypoints, path_segments, smoothed, walker, requested, navigator>>

\* no path is being processed, walked or navigated
TrackIdle ==
    /\ waypoints = <<>> /\ path_segments = <<>> /\ smoothed = <<>>
    /\ walker = <<>> /\ requested = 0 /\ navigator = <<>>

\* ---------------------------------------------------------------- helpers
Abs(n) == IF n < 0 THEN -n ELSE n

Reverse(s) == [i \in 1..Len(s) |-> s[Len(s) + 1 - i]]

\* floor of the square root of n >= 0
RECURSIVE ISqrtBin(_, _, _)
ISqrtBin(n, lo, hi) ==
    IF lo >= hi THEN lo
    ELSE LET mid == (lo + hi + 1) \div 2
         IN IF mid * mid <= n THEN ISqrtBin(n, mid, hi) ELSE ISqrtBin(n, lo, mid - 1)

ISqrt(n) == ISqrtBin(n, 0, 46340)

\* ------------------------------------------------------------------ costs
Zero == [whole |-> 0, roots |-> <<>>]

AddWhole(c, n) == [c EXCEPT !.whole = @ + n]

AddRoot(c, d2) == [c EXCEPT !.roots = Append(@, d2)]

\* sqrt(p) - sqrt(q) < d, exactly, for naturals p, q and an integer d
RootDiffLess(p, q, d) ==
    LET m == p + q - d * d
    IN IF p >= q
       THEN d > 0 /\ (m < 0 \/ m * m < 4 * p * q)
       ELSE d >= 0 \/ (m > 0 /\ m * m > 4 * p * q)

RECURSIVE SumRoots(_)
SumRoots(r) == IF r = <<>> THEN 0
               ELSE ISqrt(Precision * Precision * Head(r)) + SumRoots(Tail(r))

Approx(c) == c.whole * Precision + SumRoots(c.roots)

Radicand(c) == IF c.roots = <<>> THEN 0 ELSE c.roots[1]

\* a < b for two costs
CostLess(a, b) ==
    IF Len(a.roots) <= 1 /\ Len(b.roots) <= 1
    THEN RootDiffLess(Radicand(a), Radicand(b), b.whole - a.whole)
    ELSE Approx(a) < Approx(b)

\* ------------------------------------------------------------------- grid
NumRows(g) == Len(g)

NumCols(g) == Len(g[1])

Cell(g, x, y) == g[x + 1][y + 1]

\* ------------------------------------------------------------------- Node
None == <<>>

Node(position, parent) ==
    [position |-> position, parent |-> parent, g |-> Zero, h |-> Zero, f |-> Zero]

NodeEq(a, b) == a.position = b.position

NodeLtReversed(a, b) == CostLess(b.f, a.f)

\* lines 15-16: __lt__, the order of the heap
NodeLt(a, b) == CostLess(a.f, b.f)

\* the squared Euclidean distance: heuristic(a, b) is its square root
Dist2(a, b) == (a[1] - b[1]) * (a[1] - b[1]) + (a[2] - b[2]) * (a[2] - b[2])

heuristic(a, b) == AddRoot(Zero, Dist2(a, b))

\* ---------------------------------------------------------- line_of_sight
\* The loop runs over range(n) as evaluated at loop entry (count); the
\* decrement of n in the diagonal branch does not shorten it.
RECURSIVE LosLoop(_, _, _, _, _, _, _, _, _, _, _)
LosLoop(g, x, y, x_inc, y_inc, error, dx, dy, i, count, n) ==
    IF i >= count THEN TRUE
    ELSE IF x < 0 \/ x >= NumRows(g) \/ y < 0 \/ y >= NumCols(g) THEN FALSE
    ELSE IF Cell(g, x, y) # 0 THEN FALSE
    ELSE IF error > 0
         THEN LosLoop(g, x + x_inc, y, x_inc, y_inc, error - dy, dx, dy, i + 1, count, n)
    ELSE IF error < 0
         THEN LosLoop(g, x, y + y_inc, x_inc, y_inc, error + dx, dx, dy, i + 1, count, n)
    ELSE LosLoop(g, x + x_inc, y + y_inc, x_inc, y_inc, error - dy + dx, dx, dy,
                 i + 1, count, n - 1)

line_of_sight(g, a, b) ==
    LET x1 == a[1]
        y1 == a[2]
        x2 == b[1]
        y2 == b[2]
        dx == Abs(x2 - x1)
        dy == Abs(y2 - y1)
        n == 1 + dx + dy
        x_inc == IF x2 > x1 THEN 1 ELSE -1
        y_inc == IF y2 > y1 THEN 1 ELSE -1
    IN LosLoop(g, x1, y1, x_inc, y_inc, dx - dy, 2 * dx, 2 * dy, 0, n, n)

\* lines 50-70: the cells the loop of line_of_sight tests, in order, the
\* cell at which it returns False included
RECURSIVE TestedLoop(_, _, _, _, _, _, _, _, _, _, _)
TestedLoop(g, x, y, x_inc, y_inc, error, dx, dy, i, count, n) ==
    IF i >= count THEN <<>>
    ELSE IF x < 0 \/ x >= NumRows(g) \/ y < 0 \/ y >= NumCols(g) THEN <<<<x, y>>>>
    ELSE IF Cell(g, x, y) # 0 THEN <<<<x, y>>>>
    ELSE IF error > 0
         THEN <<<<x, y>>>> \o TestedLoop(g, x + x_inc, y, x_inc, y_inc, error - dy, dx, dy,
                                         i + 1, count, n)
    ELSE IF error < 0
         THEN <<<<x, y>>>> \o TestedLoop(g, x, y + y_inc, x_inc, y_inc, error + dx, dx, dy,
                                         i + 1, count, n)
    ELSE <<<<x, y>>>> \o TestedLoop(g, x + x_inc, y + y_inc, x_inc, y_inc, error - dy + dx,
                                    dx, dy, i + 1, count, n - 1)

tested_cells(g, a, b) ==
    LET dx == Abs(b[1] - a[1])
        dy == Abs(b[2] - a[2])
        n == 1 + dx + dy
        x_inc == IF b[1] > a[1] THEN 1 ELSE -1
        y_inc == IF b[2] > a[2] THEN 1 ELSE -1
    IN TestedLoop(g, a[1], a[2], x_inc, y_inc, dx - dy, 2 * dx, 2 * dy, 0, n, n)

\* ------------------------------------------------------------------ heapq
RECURSIVE SiftdownLoop(_, _, _, _)
SiftdownLoop(heap, startpos, pos, newitem) ==
    IF pos > startpos
    THEN LET parentpos == (pos - 1) \div 2
             parent == heap[parentpos + 1]
         IN IF NodeLt(newitem, parent)
            THEN SiftdownLoop([heap EXCEPT ![pos + 1] = parent], startpos, parentpos, newitem)
            ELSE [heap EXCEPT ![pos + 1] = newitem]
    ELSE [heap EXCEPT ![pos + 1] = newitem]

siftdown(heap, startpos, pos) == SiftdownLoop(heap, startpos, pos, heap[pos + 1])

RECURSIVE SiftupLoop(_, _, _, _, _)
SiftupLoop(heap, startpos, pos, childpos, newitem) ==
    IF childpos < Len(heap)
    THEN LET rightpos == childpos + 1
             c == IF rightpos < Len(heap) /\ ~NodeLt(heap[childpos + 1], heap[rightpos + 1])
                  THEN rightpos ELSE childpos
         IN SiftupLoop([heap EXCEPT ![pos + 1] = heap[c + 1]], startpos, c, 2 * c + 1, newitem)
    ELSE siftdown([heap EXCEPT ![pos + 1] = newitem], startpos, pos)

siftup(heap, pos) == SiftupLoop(heap, pos, pos, 2 * pos + 1, heap[pos + 1])

heappush(heap, item) == siftdown(Append(heap, item), 0, Len(heap))

\* line 101: the heap left by heappop; the item returned is heap[1]
heappop(heap) ==
    LET lastelt == heap[Len(heap)]
        rest == SubSeq(heap, 1, Len(heap) - 1)
    IN IF rest # <<>> THEN siftup([rest EXCEPT ![1] = lastelt], 0) ELSE rest

\* ------------------------------------------------------------------ astar
directionsThree == <<(<<0, 1>>), (<<1, 0>>), (<<0, -1>>)>>

\* line 98: 4-way movement
directions == <<(<<0, 1>>), (<<1, 0>>), (<<0, -1>>), (<<-1, 0>>)>>

\* lines 123-126: "make sure within range"
InRange(g, node_position) ==
    ~(node_position[1] > NumRows(g) - 1 \/ node_position[1] < 0
      \/ node_position[2] > NumCols(g) - 1 \/ node_position[2] < 0)

WalkableAlways(g, node_position) == TRUE

\* line 130: "make sure walkable terrain"
Walkable(g, node_position) == Cell(g, node_position[1], node_position[2]) = 0

\* lines 114-135: the in-range, walkable neighbours, in direction order
RECURSIVE Children(_, _, _)
Children(g, current_node, k) ==
    IF k > Len(directions) THEN <<>>
    ELSE LET node_position == <<current_node.position[1] + directions[k][1],
                                current_node.position[2] + directions[k][2]>>
             rest == Children(g, current_node, k + 1)
         IN IF ~InRange(g, node_position) THEN rest
            ELSE IF ~Walkable(g, node_position) THEN rest
            ELSE <<Node(node_position, <<current_node>>)>> \o rest

EvaluateAnyAngle(g, th, goal, current_node, child) ==
    LET withG ==
            IF th /\ current_node.parent # None
            THEN LET grand == current_node.parent[1]
                 IN IF line_of_sight(g, grand.position, child.position)
                    THEN [child EXCEPT !.parent = current_node.parent,
                                       !.g = AddRoot(grand.g, Dist2(grand.position, child.position))]
                    ELSE [child EXCEPT !.g = AddWhole(current_node.g, 1)]
            ELSE [child EXCEPT !.g = AddWhole(current_node.g, 1)]
        h == heuristic(child.position, goal)
    IN [withG EXCEPT !.h = h, !.f = [whole |-> withG.g.whole, roots |-> withG.g.roots \o h.roots]]

\* lines 143-158: the child with its g, h, f (and parent) set
Evaluate(g, th, goal, current_node, child) ==
    LET withG ==
            IF th /\ current_node.parent # None
            THEN LET grand == current_node.parent[1]
                 IN IF line_of_sight(g, grand.position, child.position)
                    THEN LET new_g == AddRoot(grand.g, Dist2(grand.position, child.position))
                         IN IF CostLess(new_g, child.g)
                            THEN [child EXCEPT !.parent = current_node.parent, !.g = new_g]
                            ELSE child
                    ELSE [child EXCEPT !.g = AddWhole(current_node.g, 1)]
            ELSE [child EXCEPT !.g = AddWhole(current_node.g, 1)]
        h == heuristic(child.position, goal)
    IN [withG EXCEPT !.h = h, !.f = [whole |-> withG.g.whole, roots |-> withG.g.roots \o h.roots]]

\* lines 160-165: an open node on the same cell with g no greater
Found(open, child) ==
    \E k \in 1..Len(open) : NodeEq(child, open[k]) /\ ~CostLess(child.g, open[k].g)

\* the loop over the children without the closed-list test of lines 140-141
RECURSIVE PushChildrenReopen(_, _, _, _, _, _, _)
PushChildrenReopen(g, th, goal, closed, current_node, children, open) ==
    IF children = <<>> THEN open
    ELSE LET child == Evaluate(g, th, goal, current_node, Head(children))
             next == IF Found(open, child) THEN open ELSE heappush(open, child)
         IN PushChildrenReopen(g, th, goal, closed, current_node, Tail(children), next)

\* lines 138-168: the loop over the children
RECURSIVE PushChildren(_, _, _, _, _, _, _)
PushChildren(g, th, goal, closed, current_node, children, open) ==
    IF children = <<>> THEN open
    ELSE LET child == Evaluate(g, th, goal, current_node, Head(children))
             next == IF Head(children).position \in closed THEN open
                     ELSE IF Found(open, child) THEN open
                     ELSE heappush(open, child)
         IN PushChildren(g, th, goal, closed, current_node, Tail(children), next)

\* lines 106-111: the parent chain of a node, goal first
RECURSIVE Chain(_)
Chain(node) ==
    IF node.parent = None THEN <<node.position>>
    ELSE <<node.position>> \o Chain(node.parent[1])

AstarPathUnreversed(node) == Chain(node)

\* lines 106-111: the path returned for the popped goal node
AstarPath(node) == Reverse(Chain(node))

\* lines 86-95
AstarInit(g, s, e, th) ==
    /\ grid = g
    /\ start = s
    /\ end = e
    /\ theta = th
    /\ open_list = heappush(<<>>, Node(s, None))
    /\ closed_list = {}
    /\ pc = "search"
    /\ path = <<>>
    /\ optimized = <<>>
    /\ los = <<>>
    /\ SpeedIdle
    /\ TrackIdle

\* lines 100-168: one iteration of the while loop
AstarStep ==
    /\ pc = "search"
    /\ open_list # <<>>
    /\ LET current_node == open_list[1]
           popped == heappop(open_list)
           closed == closed_list \cup {current_node.position}
       IN /\ closed_list' = closed
          /\ IF current_node.position = end
             THEN /\ path' = AstarPath(current_node)
                  /\ pc' = "found"
                  /\ open_list' = popped
             ELSE /\ open_list' = PushChildren(grid, theta, end, closed, current_node,
                                               Children(grid, current_node, 1), popped)
                  /\ UNCHANGED <<path, pc>>
    /\ UNCHANGED <<grid, start, end, theta, optimized, los, speed_vars, track_vars>>

\* lines 170-171: the open list is empty
AstarNone ==
    /\ pc = "search"
    /\ open_list = <<>>
    /\ pc' = "nopath"
    /\ UNCHANGED <<grid, start, end, theta, open_list, closed_list, path, optimized, los, speed_vars, track_vars>>

\* ------------------------------------------------------------- simplifier
MaxNearest(S) == CHOOSE m \in S : \A k \in S : m <= k

Max(S) == CHOOSE m \in S : \A k \in S : k <= m

Min(S) == CHOOSE m \in S : \A k \in S : m <= k

\* lines 181-191: the greedy forward walk; indices are 0-based as in the source
RECURSIVE OptimizeLoop(_, _, _, _)
OptimizeLoop(g, p, current_index, acc) ==
    IF current_index >= Len(p) - 1 THEN acc
    ELSE LET visible == {next_index \in (current_index + 1)..(Len(p) - 1) :
                            line_of_sight(g, p[current_index + 1], p[next_index + 1])}
         IN IF visible # {}
            THEN OptimizeLoop(g, p, Max(visible), Append(acc, p[Max(visible) + 1]))
            ELSE OptimizeLoop(g, p, current_index + 1, Append(acc, p[current_index + 2]))

optimize_path(g, p) ==
    IF Len(p) < 3 THEN p
    ELSE LET walked == OptimizeLoop(g, p, 0, <<p[1]>>)
         IN IF Len(walked) > 2 /\ line_of_sight(g, walked[1], walked[Len(walked)])
            THEN <<walked[1], walked[Len(walked)]>>
            ELSE walked

\* int(): truncation toward zero of num / den, den > 0
Trunc(num, den) == IF num >= 0 THEN num \div den ELSE 0 - ((0 - num) \div den)

\* lines 212-216: the waypoints inserted into one segment, s = 1 .. segments - 1
RECURSIVE Inserted(_, _, _, _)
Inserted(a, b, segments, s) ==
    IF s >= segments THEN <<>>
    ELSE <<(<<Trunc(a[1] * segments + (b[1] - a[1]) * s, segments),
              Trunc(a[2] * segments + (b[2] - a[2]) * s, segments)>>)>>
         \o Inserted(a, b, segments, s + 1)

\* lines 205-217; distance > max_length is d2 > max_length^2, and
\* int(distance / max_length) is floor(sqrt(d2)) \div max_length
RECURSIVE SplitLoop(_, _, _, _)
SplitLoop(p, max_length, i, new_path) ==
    IF i >= Len(p) THEN new_path
    ELSE LET a == p[i]
             b == p[i + 1]
             d2 == Dist2(a, b)
             segments == ISqrt(d2) \div max_length + 1
             more == IF d2 > max_length * max_length
                     THEN Inserted(a, b, segments, 1) ELSE <<>>
         IN SplitLoop(p, max_length, i + 1, (new_path \o more) \o <<b>>)

split_long_segments(p, max_length) ==
    IF Len(p) < 2 THEN p ELSE SplitLoop(p, max_length, 1, <<p[1]>>)

\* lines 229-239: the greedy walk from the end; acc is in end-to-start order
RECURSIVE ReverseLoop(_, _, _, _)
ReverseLoop(g, p, current_index, acc) ==
    IF current_index <= 0 THEN acc
    ELSE LET visible == {next_index \in 0..(current_index - 1) :
                            line_of_sight(g, p[next_index + 1], p[current_index + 1])}
         IN IF visible # {}
            THEN ReverseLoop(g, p, Min(visible), Append(acc, p[Min(visible) + 1]))
            ELSE ReverseLoop(g, p, current_index - 1, Append(acc, p[current_index]))

reverse_optimize_pathEndFirst(g, p) ==
    IF Len(p) < 3 THEN p
    ELSE ReverseLoop(g, p, Len(p) - 1, <<p[Len(p)]>>)

\* lines 221-242
reverse_optimize_path(g, p) ==
    IF Len(p) < 3 THEN p
    ELSE Reverse(ReverseLoop(g, p, Len(p) - 1, <<p[Len(p)]>>))

\* lines 250-256: one forward and one reverse pass
OnePass(g, p) ==
    reverse_optimize_path(g,
        split_long_segments(optimize_path(g, split_long_segments(p, DefaultMaxLength)),
                            DefaultMaxLength))

RECURSIVE PassLoop(_, _, _)
PassLoop(g, p, passes) == IF passes <= 0 THEN p ELSE PassLoop(g, OnePass(g, p), passes - 1)

multi_pass_optimize(g, p, passes) == IF Len(p) < 3 THEN p ELSE PassLoop(g, p, passes)

\* lines 357-359: the path found is simplified
Simplify(PassSet) ==
    /\ pc = "found"
    /\ \E passes \in PassSet : optimized' = multi_pass_optimize(grid, path, passes)
    /\ pc' = "optimized"
    /\ UNCHANGED <<grid, start, end, theta, open_list, closed_list, path, los, speed_vars, track_vars>>

\* ------------------------------------------------------------ grids, cells
BitRows(w) == [1..w -> {0, 1}]

Grids(h, w) == [1..h -> BitRows(w)]

Cells(h, w) == (0..(h - 1)) \X (0..(w - 1))

\* two cells outside the grid: above its first row, right of its last column
Outside(h, w) == {<<-1, 0>>, <<h - 1, w>>}

\* the endpoints tried: every cell, free or blocked, and the outside cells
Points(h, w) == Cells(h, w) \cup Outside(h, w)

InBounds(g, p) == p[1] >= 0 /\ p[1] < NumRows(g) /\ p[2] >= 0 /\ p[2] < NumCols(g)

Free(g, p) == InBounds(g, p) /\ Cell(g, p[1], p[2]) = 0

\* the grid shapes of at most MaxCells cells
Shapes == {sh \in (1..MaxCells) \X (1..MaxCells) : sh[1] * sh[2] <= MaxCells}

\* every grid of at most MaxCells cells, every pair of endpoints, both modes
Init ==
    \E sh \in Shapes :
        \E g \in Grids(sh[1], sh[2]), s \in Points(sh[1], sh[2]), e \in Points(sh[1], sh[2]),
           th \in BOOLEAN : AstarInit(g, s, e, th)

Next == AstarStep \/ AstarNone \/ Simplify(1..MaxPasses)

Spec == Init /\ [][Next]_vars

\* ------------------------------------------------------- plain A* searches
\* a grid on which the plain search from (0, 4) to (2, 0) pops a second
\* entry of a cell it has closed before it pops the goal
DuplicateGrid ==
    <<<<0, 1, 0, 0, 0>>, <<1, 0, 0, 1, 0>>, <<0, 1, 0, 0, 0>>, <<0, 0, 0, 1, 0>>>>

\* astar(grid, start, end) with theta left at its default False (line 74):
\* every grid of at most MaxCells cells and DuplicateGrid, every pair of cells
PlainInit ==
    \/ \E sh \in Shapes :
          \E g \in Grids(sh[1], sh[2]), s \in Cells(sh[1], sh[2]), e \in Cells(sh[1], sh[2]) :
             AstarInit(g, s, e, FALSE)
    \/ \E s \in Cells(4, 5), e \in Cells(4, 5) : AstarInit(DuplicateGrid, s, e, FALSE)

SpecPlain == PlainInit /\ [][Next]_vars

\* ------------------------------------------- line_of_sight in both directions
\* a and b are kept in start and end
LosInit ==
    \E sh \in {t \in (1..MaxLosCells) \X (1..MaxLosCells) : t[1] * t[2] <= MaxLosCells} :
        \E g \in Grids(sh[1], sh[2]), a \in Points(sh[1], sh[2]), b \in Points(sh[1], sh[2]) :
            /\ grid = g
            /\ start = a
            /\ end = b
            /\ theta = FALSE
            /\ open_list = <<>>
            /\ closed_list = {}
            /\ pc = "los"
            /\ path = <<>>
            /\ optimized = <<>>
            /\ los = <<>>
            /\ SpeedIdle
            /\ TrackIdle

LosCheck ==
    /\ pc = "los"
    /\ los' = <<line_of_sight(grid, start, end), line_of_sight(grid, end, start)>>
    /\ pc' = "los_done"
    /\ UNCHANGED <<grid, start, end, theta, open_list, closed_list, path, optimized, speed_vars, track_vars>>

SpecLos == LosInit /\ [][LosCheck]_vars

\* --------------------------------------------------- long two-row corridors
\* the grids of h rows and w columns with at most one blocked cell
OneBlocked(h, w) ==
    {[x \in 1..h |-> [y \in 1..w |-> IF b = <<x - 1, y - 1>> THEN 1 ELSE 0]] :
        b \in Cells(h, w) \cup {<<-1, -1>>}}

\* start in the first column, goal in the last one
LongInit ==
    \E g \in OneBlocked(LongRows, LongCols), s \in (0..(LongRows - 1)) \X {0},
       e \in (0..(LongRows - 1)) \X {LongCols - 1}, th \in BOOLEAN : AstarInit(g, s, e, th)

SpecLong == LongInit /\ [][Next]_vars

\* ------------------------------------------------ the end-to-end scenarios
\* 10x10, column 4 blocked except at row 5
GateGrid == [x \in 1..10 |-> [y \in 1..10 |-> IF y = 5 /\ x # 6 THEN 1 ELSE 0]]

\* 10x10, column 4 blocked
WallGrid == [x \in 1..10 |-> [y \in 1..10 |-> IF y = 5 THEN 1 ELSE 0]]

ScenarioInit ==
    \E th \in BOOLEAN :
        \/ AstarInit(GateGrid, <<0, 0>>, <<9, 9>>, th)
        \/ AstarInit(WallGrid, <<0, 0>>, <<0, 9>>, th)

ScenarioNext == AstarStep \/ AstarNone \/ Simplify({DefaultPasses})

SpecScenario == ScenarioInit /\ [][ScenarioNext]_vars

\* ------------------------------------------------- calculate_speed_limits
\* Speeds are real numbers, and the two passes take square roots.  A speed
\* v is kept as its signed square v * |v|, an integer here: the map is
\* strictly increasing, so min, max and clip act on signed squares as they
\* act on speeds, and sqrt(X) is kept as X.
SSq(v) == v * Abs(v)

Min2(a, b) == IF b < a THEN b ELSE a

Max2(a, b) == IF b > a THEN b ELSE a

clipUpperOnly(x, lo, hi) == Min2(x, hi)

\* line 45: np.clip
clip(x, lo, hi) == Min2(Max2(x, lo), hi)

Clipped(sl, P) ==
    [i \in 1..Len(sl) |-> clip(sl[i], SSq(P.min_speed), SSq(P.max_speed))]

MaxSpeedFromAccelNoCarry(P, prev, ds) == 2 * P.max_accel * ds

\* line 52: sqrt(speed_limits[i-1]**2 + 2 * max_accel * (distances[i] - distances[i-1]))
MaxSpeedFromAccel(P, prev, ds) == Abs(prev) + 2 * P.max_accel * ds

\* lines 51-53; i is the 0-based index of the source
RECURSIVE ForwardLoop(_, _, _, _)
ForwardLoop(sl, dist, P, i) ==
    IF i >= Len(sl) THEN sl
    ELSE ForwardLoop([sl EXCEPT ![i + 1] =
                          Min2(sl[i + 1], MaxSpeedFromAccel(P, sl[i], dist[i + 1] - dist[i]))],
                     dist, P, i + 1)

\* lines 48-53
ForwardPass(sl, dist, P) == ForwardLoop([sl EXCEPT ![1] = SSq(P.min_speed)], dist, P, 1)

MaxSpeedFromDecelByAccel(P, next, ds) == Abs(next) + 2 * P.max_accel * ds

\* line 59: sqrt(speed_limits[i+1]**2 + 2 * max_decel * (distances[i+1] - distances[i]))
MaxSpeedFromDecel(P, next, ds) == Abs(next) + 2 * P.max_decel * ds

\* lines 58-60; i is the 0-based index of the source
RECURSIVE BackwardLoop(_, _, _, _)
BackwardLoop(sl, dist, P, i) ==
    IF i < 0 THEN sl
    ELSE BackwardLoop([sl EXCEPT ![i + 1] =
                           Min2(sl[i + 1], MaxSpeedFromDecel(P, sl[i + 2], dist[i + 2] - dist[i + 1]))],
                      dist, P, i - 1)

BackwardPassKeepLast(sl, dist, P) == BackwardLoop(sl, dist, P, Len(sl) - 2)

\* lines 56-60
BackwardPass(sl, dist, P) ==
    BackwardLoop([sl EXCEPT ![Len(sl)] = SSq(P.min_speed)], dist, P, Len(sl) - 2)

\* a 4x4 grid on which the search pops entries of cells it has closed
ReexpandGrid == <<<<0, 0, 1, 0>>, <<0, 0, 0, 0>>, <<0, 0, 0, 1>>, <<0, 0, 1, 0>>>>

ReexpandInit ==
    \E s \in Cells(4, 4), e \in Cells(4, 4), th \in BOOLEAN : AstarInit(ReexpandGrid, s, e, th)

SpecReexpand == ReexpandInit /\ [][Next]_vars

\* split_long_segments(path, max_length) called on its own: the path is
\* kept in path, max_length in params, the result goes to optimized; over
\* these coordinates x1 + (x2 - x1) * ratio is computed without rounding
SplitInit ==
    /\ \E n \in 1..MaxWaypoints :
         path \in [1..n -> (0..MaxSplitCoord) \X (0..MaxSplitCoord)]
    /\ \E max_length \in 1..MaxLength : params = [max_length |-> max_length]
    /\ pc = "split"
    /\ grid = <<>> /\ start = <<>> /\ end = <<>> /\ theta = FALSE
    /\ open_list = <<>> /\ closed_list = {} /\ optimized = <<>> /\ los = <<>>
    /\ distances = <<>> /\ speed_limits = <<>>
    /\ TrackIdle

\* lines 199-219
SplitSegments ==
    /\ pc = "split"
    /\ optimized' = split_long_segments(path, params.max_length)
    /\ pc' = "split_done"
    /\ UNCHANGED <<grid, start, end, theta, open_list, closed_list, path, los,
                   speed_vars, track_vars>>

SpecSplit == SplitInit /\ [][SplitSegments]_vars

\* ------------------------------------------- the simplifier on its own paths
\* the grids handed to the simplifier: LongRows x LongCols, free but for at
\* most one blocked cell among the first three of the first row
PassGrids ==
    {[x \in 1..LongRows |-> [y \in 1..LongCols |-> IF b = <<x - 1, y - 1>> THEN 1 ELSE 0]] :
        b \in Cells(1, 3) \cup {<<-1, -1>>}}

\* the paths handed to the simplifier: at most MaxWaypoints cells of the
\* first two columns and the last one, in any order, repeats included
PassPaths ==
    UNION {[1..n -> (0..(LongRows - 1)) \X {0, 1, LongCols - 1}] : n \in 0..MaxWaypoints}

PassInit ==
    /\ grid \in PassGrids
    /\ path \in PassPaths
    /\ pc = "simplify"
    /\ start = <<>> /\ end = <<>> /\ theta = FALSE
    /\ open_list = <<>> /\ closed_list = {} /\ optimized = <<>> /\ los = <<>>
    /\ SpeedIdle
    /\ TrackIdle

\* lines 173-197
OptimizePath ==
    /\ pc = "simplify"
    /\ optimized' = optimize_path(grid, path)
    /\ pc' = "optimize_path"
    /\ UNCHANGED <<grid, start, end, theta, open_list, closed_list, path, los,
                   speed_vars, track_vars>>

\* lines 221-242
ReverseOptimizePath ==
    /\ pc = "simplify"
    /\ optimized' = reverse_optimize_path(grid, path)
    /\ pc' = "reverse_optimize_path"
    /\ UNCHANGED <<grid, start, end, theta, open_list, closed_list, path, los,
                   speed_vars, track_vars>>

\* lines 199-219, with the default max_length or a shorter one
SplitLongSegments ==
    /\ pc = "simplify"
    /\ \E max_length \in (1..MaxLength) \cup {DefaultMaxLength} :
          optimized' = split_long_segments(path, max_length)
    /\ pc' = "split_long_segments"
    /\ UNCHANGED <<grid, start, end, theta, open_list, closed_list, path, los,
                   speed_vars, track_vars>>

\* lines 244-258
MultiPassOptimize ==
    /\ pc = "simplify"
    /\ \E passes \in 0..MaxPasses : optimized' = multi_pass_optimize(grid, path, passes)
    /\ pc' = "multi_pass_optimize"
    /\ UNCHANGED <<grid, start, end, theta, open_list, closed_list, path, los,
                   speed_vars, track_vars>>

PassNext == OptimizePath \/ ReverseOptimizePath \/ SplitLongSegments \/ MultiPassOptimize

SpecPass == PassInit /\ [][PassNext]_vars

\* astar is not running
AstarIdle ==
    /\ grid = <<>> /\ start = <<>> /\ end = <<>> /\ theta = FALSE
    /\ open_list = <<>> /\ closed_list = {} /\ path = <<>> /\ optimized = <<>> /\ los = <<>>

astar_vars == <<grid, start, end, theta, open_list, closed_list, path, optimized, los>>

\* the speeds given as parameters, the turning caps of line 42, the
\* accelerations and the distances between consecutive samples
SpeedValues == -1..2

CapValues == -1..3

AccelValues == 0..1

StepValues == 0..1

RECURSIVE Cumulative(_, _)
Cumulative(steps, i) == IF i <= 0 THEN 0 ELSE steps[i] + Cumulative(steps, i - 1)

\* the state after line 42: a nonempty path table with nondecreasing arc
\* lengths, min_speed <= max_speed, accelerations >= 0, and the turning
\* caps max_turning_speed / (|curvature| + 1e-6) in speed_limits
SpeedInit ==
    /\ \E n \in 1..MaxSamples :
         \E caps \in [1..n -> CapValues], steps \in [1..(n - 1) -> StepValues],
            mn \in SpeedValues, mx \in SpeedValues, a \in AccelValues, d \in AccelValues :
            /\ mn <= mx
            /\ params = [max_speed |-> mx, min_speed |-> mn, max_accel |-> a, max_decel |-> d]
            /\ distances = [i \in 1..n |-> Cumulative(steps, i - 1)]
            /\ speed_limits = [i \in 1..n |-> SSq(caps[i])]
    /\ pc = "clip"
    /\ grid = <<>>
    /\ start = <<>>
    /\ end = <<>>
    /\ theta = FALSE
    /\ open_list = <<>>
    /\ closed_list = {}
    /\ path = <<>>
    /\ optimized = <<>>
    /\ los = <<>>
    /\ TrackIdle

\* line 45
SpeedClip ==
    /\ pc = "clip"
    /\ speed_limits' = Clipped(speed_limits, params)
    /\ pc' = "forward"
    /\ UNCHANGED <<grid, start, end, theta, open_list, closed_list, path, optimized, los,
                   params, distances, track_vars>>

\* lines 48-53
SpeedForward ==
    /\ pc = "forward"
    /\ speed_limits' = ForwardPass(speed_limits, distances, params)
    /\ pc' = "backward"
    /\ UNCHANGED <<grid, start, end, theta, open_list, closed_list, path, optimized, los,
                   params, distances, track_vars>>

\* lines 56-63
SpeedBackward ==
    /\ pc = "backward"
    /\ speed_limits' = BackwardPass(speed_limits, distances, params)
    /\ pc' = "speed_done"
    /\ UNCHANGED <<grid, start, end, theta, open_list, closed_list, path, optimized, los,
                   params, distances, track_vars>>

SpeedNext == SpeedClip \/ SpeedForward \/ SpeedBackward

SpecSpeed == SpeedInit /\ [][SpeedNext]_vars

\* the state after line 42 for a trajectory of zero curvature: every turning
\* cap is max_turning_speed / 1e-6, taken large enough to clip to max_speed
FlatInit ==
    /\ \E n \in 1..MaxFlatSamples :
         \E cap \in CapValues, steps \in [1..(n - 1) -> StepValues],
            mn \in SpeedValues, mx \in SpeedValues, a \in AccelValues, d \in AccelValues :
            /\ mn <= mx
            /\ cap >= mx
            /\ params = [max_speed |-> mx, min_speed |-> mn, max_accel |-> a, max_decel |-> d]
            /\ distances = [i \in 1..n |-> Cumulative(steps, i - 1)]
            /\ speed_limits = [i \in 1..n |-> SSq(cap)]
    /\ pc = "clip"
    /\ grid = <<>>
    /\ start = <<>>
    /\ end = <<>>
    /\ theta = FALSE
    /\ open_list = <<>>
    /\ closed_list = {}
    /\ path = <<>>
    /\ optimized = <<>>
    /\ los = <<>>
    /\ TrackIdle

SpecFlat == FlatInit /\ [][SpeedNext]_vars

\* v_min > v_max, or an acceleration or deceleration that is not positive
InvalidParameters(P) ==
    P.min_speed > P.max_speed \/ P.max_accel <= 0 \/ P.max_decel <= 0

\* the state after line 42 of a call with invalid parameters: nothing in
\* lines 4-42 looks at them
InvalidInit ==
    /\ \E n \in 1..MaxSamples :
         \E caps \in [1..n -> CapValues], steps \in [1..(n - 1) -> StepValues],
            mn \in SpeedValues, mx \in SpeedValues, a \in AccelValues, d \in AccelValues :
            /\ InvalidParameters([max_speed |-> mx, min_speed |-> mn,
                                  max_accel |-> a, max_decel |-> d])
            /\ params = [max_speed |-> mx, min_speed |-> mn, max_accel |-> a, max_decel |-> d]
            /\ distances = [i \in 1..n |-> Cumulative(steps, i - 1)]
            /\ speed_limits = [i \in 1..n |-> SSq(caps[i])]
    /\ pc = "clip"
    /\ AstarIdle
    /\ TrackIdle

SpecInvalid == InvalidInit /\ [][SpeedNext]_vars

\* ------------------------------------------------------ path_processor.py
\* line 8
CELL_SIZE == 5

\* the number of binary digits of x > 0
RECURSIVE BitLen(_)
BitLen(x) == IF x = 0 THEN 0 ELSE 1 + BitLen(x \div 2)

\* 2 to the power e
RECURSIVE Pow2(_)
Pow2(e) == IF e = 0 THEN 1 ELSE 2 * Pow2(e - 1)

\* the distances of lines 14, 32-46, 62 and 76 are Python floats, binary
\* floating-point numbers: the result of an operation is rounded to the
\* nearest number with the significant bits of the format, ties to the even
\* one.  The format of the model keeps MantissaBits significant bits and
\* its smallest spacing is one unit, so every whole number below
\* 2^MantissaBits is kept as it is.
flAbs(x) ==
    IF x < Pow2(MantissaBits) THEN x
    ELSE LET e == BitLen(x) - MantissaBits
             q == x \div Pow2(e)
             r == x % Pow2(e)
             half == Pow2(e - 1)
         IN IF r > half \/ (r = half /\ q % 2 = 1) THEN (q + 1) * Pow2(e) ELSE q * Pow2(e)

fl(x) == IF x < 0 THEN 0 - flAbs(0 - x) ELSE flAbs(x)

\* lines 51-55: the cells of the file become centimetres
read_waypoints(cells) ==
    [i \in 1..Len(cells) |-> <<cells[i][1] * CELL_SIZE, cells[i][2] * CELL_SIZE>>]

\* lines 57-58: calculate_distance; the waypoints of the model are joined by
\* axis-parallel segments, whose length is a whole number
calculate_distance(p1, p2) == fl(ISqrt(Dist2(p1, p2)))

\* lines 60-78; i is the 0-based index of the source
RECURSIVE ProcessLoop(_, _, _, _)
ProcessLoop(wps, i, segs, cumulative_distance) ==
    IF i >= Len(wps) - 1 THEN segs
    ELSE LET length == calculate_distance(wps[i + 1], wps[i + 2])
             segment == [start |-> wps[i + 1], end |-> wps[i + 2], length |-> length,
                         distance_from_start |-> cumulative_distance]
         IN ProcessLoop(wps, i + 1, Append(segs, segment), fl(cumulative_distance + length))

process_path(wps) == ProcessLoop(wps, 0, <<>>, 0)

\* lines 11-15: PathWalker.__init__; raised records a ZeroDivisionError
PathWalker(segs) ==
    [segments |-> segs, current_segment_idx |-> 0, distance_traveled |-> 0,
     current_position |-> IF segs # <<>> THEN segs[1].start ELSE <<0, 0>>,
     raised |-> FALSE]

\* lines 29-47: the loop of PathWalker.move; a position is kept to a whole
\* number of units (it is exact on the axis-parallel segments of the model
\* whenever the distances are)
RECURSIVE MoveLoop(_, _)
MoveLoop(w, remaining_distance) ==
    IF ~(remaining_distance > 0 /\ w.current_segment_idx < Len(w.segments)) \/ w.raised THEN w
    ELSE LET segment == w.segments[w.current_segment_idx + 1]
             segment_length == segment.length
             segment_remaining ==
                 fl(segment_length
                      - (IF w.current_segment_idx > 0
                         THEN fl(w.distance_traveled - segment.distance_from_start)
                         ELSE w.distance_traveled))
         IN IF remaining_distance <= segment_remaining
            THEN IF segment_length = 0 THEN [w EXCEPT !.raised = TRUE]
                 ELSE LET num == fl(fl(w.distance_traveled - segment.distance_from_start)
                                      + remaining_distance)
                      IN MoveLoop(
                           [w EXCEPT
                              !.current_position =
                                  <<segment.start[1]
                                      + ((segment.end[1] - segment.start[1]) * num)
                                          \div segment_length,
                                    segment.start[2]
                                      + ((segment.end[2] - segment.start[2]) * num)
                                          \div segment_length>>,
                              !.distance_traveled = fl(@ + remaining_distance)],
                           0)
            ELSE MoveLoop(
                   [w EXCEPT !.current_position = segment.end,
                             !.distance_traveled = fl(@ + segment_remaining),
                             !.current_segment_idx = @ + 1],
                   fl(remaining_distance - segment_remaining))

\* lines 25-49
move(w, distance) == MoveLoop(w, distance)

\* lines 88-100: the loop of smooth_path; a median is kept as twice its
\* value, the sum of the two positions, so that it stays a whole number;
\* the 1 cm of lines 99-100 is UnitsPerCm units
RECURSIVE SmoothLoop(_, _, _, _)
SmoothLoop(lead, trail, total, out) ==
    IF ~(lead.distance_traveled < total) THEN out
    ELSE SmoothLoop(move(lead, UnitsPerCm), move(trail, UnitsPerCm), total,
                    Append(out, <<lead.current_position[1] + trail.current_position[1],
                                  lead.current_position[2] + trail.current_position[2]>>))

smooth_pathNoLead(segs, distance) ==
    SmoothLoop(PathWalker(segs), PathWalker(segs),
               fl(segs[Len(segs)].distance_from_start + segs[Len(segs)].length), <<>>)

\* lines 80-102, for segments # <<>>
smooth_path(segs, distance) ==
    SmoothLoop(move(PathWalker(segs), distance), PathWalker(segs),
               fl(segs[Len(segs)].distance_from_start + segs[Len(segs)].length), <<>>)

\* the waypoints handed to process_path: 1..MaxWaypoints points whose
\* consecutive pairs lie on one row or one column (repeated points included)
AxisParallel(wps) ==
    \A i \in 1..(Len(wps) - 1) : wps[i][1] = wps[i + 1][1] \/ wps[i][2] = wps[i + 1][2]

WaypointLists ==
    UNION {{wps \in [1..n -> (0..MaxCoord) \X (0..MaxCoord)] : AxisParallel(wps)} :
             n \in 1..MaxWaypoints}

\* main, lines 257-258 and 273: the waypoints are read and handed to
\* process_path, the segments to smooth_path; the coordinates and the lead
\* distance are in units of 1 / UnitsPerCm cm
SmoothInit ==
    /\ waypoints \in WaypointLists
    /\ path_segments = <<>>
    /\ smoothed = <<>>
    /\ walker = <<>>
    /\ requested = 0
    /\ navigator = <<>>
    /\ pc = "process"
    /\ AstarIdle
    /\ SpeedIdle

\* line 258
ProcessPath ==
    /\ pc = "process"
    /\ path_segments' = process_path(waypoints)
    /\ pc' = "smooth"
    /\ UNCHANGED <<astar_vars, speed_vars, waypoints, smoothed, walker, requested, navigator>>

\* line 273: smooth_path(segments, distance), the distance kept in
\* requested; with no segment, segments[-1] in the loop test of line 88
\* raises IndexError
SmoothPath ==
    /\ pc = "smooth"
    /\ \E distance \in 0..MaxMove :
         /\ requested' = distance
         /\ IF path_segments = <<>>
            THEN /\ pc' = "IndexError"
                 /\ smoothed' = smoothed
            ELSE /\ pc' = "smoothed"
                 /\ smoothed' = smooth_path(path_segments, distance)
    /\ UNCHANGED <<astar_vars, speed_vars, waypoints, path_segments, walker, navigator>>

SmoothNext == ProcessPath \/ SmoothPath

SpecSmooth == SmoothInit /\ [][SmoothNext]_vars

\* a PathWalker over the segments of a path read by read_waypoints, lines
\* 257-265
WalkInit ==
    /\ \E cells \in WaypointLists : waypoints = read_waypoints(cells)
    /\ path_segments = process_path(waypoints)
    /\ walker = PathWalker(path_segments)
    /\ requested = 0
    /\ smoothed = <<>>
    /\ navigator = <<>>
    /\ pc = "walk"
    /\ AstarIdle
    /\ SpeedIdle

\* one call of PathWalker.move with a distance >= 0
WalkerMove ==
    /\ pc = "walk"
    /\ \E distance \in 0..MaxRequested :
         /\ requested + distance <= MaxRequested
         /\ walker' = move(walker, distance)
         /\ requested' = requested + distance
    /\ UNCHANGED <<astar_vars, speed_vars, pc, waypoints, path_segments, smoothed, navigator>>

SpecWalk == WalkInit /\ [][WalkerMove]_vars

\* ------------------------------------------------------ path_navigator.py
\* lines 4-16: PathNavigator.__init__; of the six columns of path_data the
\* model keeps x and y
PathNavigator(points, window_size) ==
    [path_data |-> points, current_idx |-> 0, window_size |-> window_size,
     path_length |-> Len(points)]

\* line 42: np.argmin over the window, the first index of the least squared
\* distance; i and best are 0-based indices into the window
RECURSIVE ArgminLoop(_, _, _, _, _, _)
ArgminLoop(points, search_start, search_end, robot, i, best) ==
    IF search_start + i >= search_end THEN best
    ELSE ArgminLoop(points, search_start, search_end, robot, i + 1,
                    IF Dist2(points[search_start + i + 1], robot)
                         < Dist2(points[search_start + best + 1], robot)
                    THEN i ELSE best)

\* lines 18-60: the effect of update_position on the navigator
update_position(nav, robot_x, robot_y) ==
    LET search_start == Max2(0, nav.current_idx - nav.window_size \div 2)
        search_end == Min2(nav.path_length, nav.current_idx + nav.window_size \div 2)
    IN IF search_end <= search_start THEN nav
       ELSE [nav EXCEPT !.current_idx =
                 search_start + ArgminLoop(nav.path_data, search_start, search_end,
                                           <<robot_x, robot_y>>, 0, 0)]

\* lines 68-69: the body of reset is its docstring
reset(nav) == nav

NavInit ==
    /\ \E points \in WaypointLists, window_size \in 0..MaxWindow :
         navigator = PathNavigator(points, window_size)
    /\ waypoints = <<>>
    /\ path_segments = <<>>
    /\ smoothed = <<>>
    /\ walker = <<>>
    /\ requested = 0
    /\ pc = "navigate"
    /\ AstarIdle
    /\ SpeedIdle

NavUpdate ==
    /\ pc \in {"navigate", "updated", "reset"}
    /\ \E robot_x \in 0..MaxCoord, robot_y \in 0..MaxCoord :
         navigator' = update_position(navigator, robot_x, robot_y)
    /\ pc' = "updated"
    /\ UNCHANGED <<astar_vars, speed_vars, waypoints, path_segments, smoothed, walker, requested>>

NavReset ==
    /\ pc \in {"navigate", "updated", "reset"}
    /\ navigator' = reset(navigator)
    /\ pc' = "reset"
    /\ UNCHANGED <<astar_vars, speed_vars, waypoints, path_segments, smoothed, walker, requested>>

NavNext == NavUpdate \/ NavReset

SpecNav == NavInit /\ [][NavNext]_vars

\* ----------------------------------------------------------- reachability
Neighbours4(p) ==
    {<<p[1], p[2] + 1>>, <<p[1] + 1, p[2]>>, <<p[1], p[2] - 1>>, <<p[1] - 1, p[2]>>}

\* the cells connected to S through 4-connected free cells
RECURSIVE Flood(_, _)
Flood(g, S) ==
    LET T == S \cup {q \in Cells(NumRows(g), NumCols(g)) :
                        Free(g, q) /\ \E p \in S : q \in Neighbours4(p)}
    IN IF T = S THEN S ELSE Flood(g, T)

Reachable(g, s, e) == e \in Flood(g, {s})

Returned == pc \in {"found", "optimized"}

ValidEndpoints == Free(grid, start) /\ Free(grid, end)

\* every reachable cost g is a whole number of steps
GWhole == \A k \in 1..Len(open_list) : open_list[k].g.roots = <<>>

\* ------------------------------------------------------------------ claims

\* C1: with start and goal on in-bounds free cells, in either mode, every
\* cell of a returned path is inside the grid and has grid value 0.
C1_PathCellsFree ==
    (Returned /\ ValidEndpoints) => \A i \in 1..Len(path) : Free(grid, path[i])

C1_Witness ==
    /\ pc = "found" /\ ValidEndpoints /\ theta /\ Len(path) >= 4
    /\ \E q \in Cells(NumRows(grid), NumCols(grid)) : ~Free(grid, q)

\* C2: with start and goal on in-bounds free cells, a path is returned only
\* if the goal is reachable through 4-connected free cells, and None is
\* returned only if it is not.
C2_PathIffReachable ==
    ValidEndpoints =>
        /\ Returned => Reachable(grid, start, end)
        /\ pc = "nopath" => ~Reachable(grid, start, end)

C2_Witness ==
    /\ pc = "nopath" /\ ValidEndpoints /\ Cardinality(closed_list) >= 2
    /\ NumRows(grid) > 1 /\ NumCols(grid) > 1

\* C3: a returned path starts at start and ends at goal; with start = goal
\* on a free cell the search returns the single-cell path [start].
C3_PathEndpoints ==
    /\ Returned => (path # <<>> /\ path[1] = start /\ path[Len(path)] = end)
    /\ (pc # "search" /\ start = end /\ Free(grid, start)) =>
            (Returned /\ path = <<start>>)

C3_Witness == pc = "found" /\ start = end /\ Free(grid, start)

\* C4: a start or goal that is out of bounds or on a blocked cell never
\* yields a path.
C4_InvalidEndpointNoPath == ~ValidEndpoints => ~Returned

\* the cells a node can stand on that are not closed yet
Unclosed == Cardinality((({start} \cup {q \in Cells(NumRows(grid), NumCols(grid)) :
                                        Free(grid, q)}) \ closed_list))

\* the open entries whose cell is already closed
Stale(open, closed) == Cardinality({k \in 1..Len(open) : open[k].position \in closed})

\* C5: the search loop terminates after finitely many pops: every iteration
\* either closes a cell that was not closed, or leaves the closed set alone
\* and removes one open entry of a closed cell without adding another, so
\* the pair (unclosed cells, open entries on closed cells) decreases in
\* lexicographic order until the goal is popped or the open set is empty.
C5_Terminates ==
    [][(pc = "search" /\ open_list # <<>>) =>
          \/ Unclosed' < Unclosed
          \/ /\ Unclosed' = Unclosed
             /\ Stale(open_list', closed_list') < Stale(open_list, closed_list)]_vars

C5_Witness == pc = "search" /\ Stale(open_list, closed_list) >= 1

\* C6: line_of_sight is symmetric, line_of_sight(grid, A, B) =
\* line_of_sight(grid, B, A) for every grid and points A, B.
C6_LosSymmetric == pc = "los_done" => los[1] = los[2]

\* the consecutive waypoints of p see each other
Visible(g, p) == \A i \in 1..(Len(p) - 1) : line_of_sight(g, p[i], p[i + 1])

\* C7: every consecutive pair of waypoints in the output of
\* multi_pass_optimize, run on a path astar returned, satisfies
\* line_of_sight on the same grid.
C7_SimplifiedVisible == (pc = "optimized" /\ ValidEndpoints) => Visible(grid, optimized)

\* C8 as stated: on the gate grid, Theta* followed by five passes yields
\* exactly the cells (0,0), (5,4), (9,9).
C8_GateThreeCells ==
    (pc = "optimized" /\ grid = GateGrid /\ theta) =>
        optimized = <<(<<0, 0>>), (<<5, 4>>), (<<9, 9>>)>>

\* C8 as amended: on the gate grid, Theta* followed by five passes yields
\* exactly the four cells (0,0), (5,3), (6,7), (9,9).
C8_GateFourCells ==
    (pc = "optimized" /\ grid = GateGrid /\ theta) =>
        optimized = <<(<<0, 0>>), (<<5, 3>>), (<<6, 7>>), (<<9, 9>>)>>

C8_Witness == pc = "optimized" /\ grid = GateGrid /\ theta /\ Len(path) > Len(optimized)

\* v[i+1]^2 <= v[i]^2 + 2 * a_max * ds at every consecutive pair
AccelFeasible(sl, dist, P) ==
    \A i \in 1..(Len(sl) - 1) :
        Abs(sl[i + 1]) <= Abs(sl[i]) + 2 * P.max_accel * (dist[i + 1] - dist[i])

\* v[i]^2 <= v[i+1]^2 + 2 * d_max * ds at every consecutive pair
DecelFeasible(sl, dist, P) ==
    \A i \in 1..(Len(sl) - 1) :
        Abs(sl[i]) <= Abs(sl[i + 1]) + 2 * P.max_decel * (dist[i + 1] - dist[i])

\* C9 as stated: for nondecreasing arc lengths, v_min <= v_max and a_max,
\* d_max >= 0, the returned speeds satisfy both kinematic inequalities at
\* every consecutive pair.
C9_Kinematic ==
    pc = "speed_done" =>
        (AccelFeasible(speed_limits, distances, params)
         /\ DecelFeasible(speed_limits, distances, params))

\* C9 as amended: the same with 0 <= v_min; the inequality of the forward
\* pass holds after it and is kept by the backward pass.
C9_KinematicNonneg ==
    params.min_speed >= 0 =>
        /\ pc \in {"backward", "speed_done"} =>
               AccelFeasible(speed_limits, distances, params)
        /\ pc = "speed_done" => DecelFeasible(speed_limits, distances, params)

\* a profile that both passes lowered somewhere strictly inside
C9_Witness ==
    /\ pc = "speed_done" /\ params.min_speed >= 0 /\ Len(speed_limits) >= 3
    /\ params.max_accel > 0 /\ params.max_decel > 0
    /\ \E i \in 2..(Len(speed_limits) - 1) :
          /\ speed_limits[i] > SSq(params.min_speed)
          /\ speed_limits[i] < SSq(params.max_speed)

\* C10: for a nonempty path table, v_min <= v_max and a_max, d_max >= 0,
\* every speed limit lies in [min_speed, max_speed] after the clipping,
\* after the forward pass and after the backward pass.
C10_SpeedInRange ==
    pc \in {"forward", "backward", "speed_done"} =>
        \A i \in 1..Len(speed_limits) :
            /\ SSq(params.min_speed) <= speed_limits[i]
            /\ speed_limits[i] <= SSq(params.max_speed)

\* a finished profile of two or more samples, one of them at max_speed
C10_Witness ==
    /\ pc = "speed_done" /\ Len(speed_limits) >= 2
    /\ params.min_speed > 0
    /\ \E i \in 1..Len(speed_limits) : speed_limits[i] = SSq(params.max_speed)

AccelRamp(dist, P, i) ==
    IF i = 1 THEN SSq(P.min_speed)
    ELSE Abs(SSq(P.min_speed)) + 2 * P.max_accel * (dist[i] - dist[1])

DecelRamp(dist, P, i) ==
    IF i = Len(dist) THEN SSq(P.min_speed)
    ELSE Abs(SSq(P.min_speed)) + 2 * P.max_decel * (dist[Len(dist)] - dist[i])

\* nondecreasing up to some sample, nonincreasing from it on
Unimodal(sl) ==
    \E k \in 1..Len(sl) :
        /\ \A i \in 1..(k - 1) : sl[i] <= sl[i + 1]
        /\ \A i \in k..(Len(sl) - 1) : sl[i] >= sl[i + 1]

C13_SinglePointNeverFails ==
    Len(waypoints) = 1 =>
        /\ pc # "IndexError"
        /\ pc = "smoothed" =>
               smoothed = <<<<2 * waypoints[1][1], 2 * waypoints[1][2]>>>>

\* C14: a call with invalid parameters (v_min > v_max, or a nonpositive
\* acceleration or deceleration) is rejected before anything is computed, so
\* it produces no speed profile.
C14_InvalidRejected == InvalidParameters(params) => pc # "speed_done"

\* C15: after any sequence of update_position calls, reset() puts the
\* navigator back at the start of the path: current_idx is 0 afterwards.
C15_ResetToStart == pc = "reset" => navigator.current_idx = 0

\* two costs are equal
CostEq(a, b) == ~CostLess(a, b) /\ ~CostLess(b, a)

\* the length of the parent chain of a node: the sum of the Euclidean
\* distances between consecutive positions, a step between neighbours being 1
RECURSIVE ChainCost(_)
ChainCost(node) ==
    IF node.parent = None THEN Zero
    ELSE LET d2 == Dist2(node.parent[1].position, node.position)
         IN IF d2 = 1 THEN AddWhole(ChainCost(node.parent[1]), 1)
            ELSE AddRoot(ChainCost(node.parent[1]), d2)

\* what C16 says of a child n pushed while current_node is expanded
ThetaChild(current_node, n) ==
    /\ IF theta /\ current_node.parent # None
          /\ line_of_sight(grid, current_node.parent[1].position, n.position)
       THEN /\ n.parent = current_node.parent
            /\ CostEq(n.g, AddRoot(current_node.parent[1].g,
                                   Dist2(current_node.parent[1].position, n.position)))
       ELSE /\ n.parent = <<current_node>>
            /\ CostEq(n.g, AddWhole(current_node.g, 1))
    /\ CostEq(n.g, ChainCost(n))

\* C16: in Theta* mode a child generated while a node with a parent is
\* expanded, and visible from that parent, is pushed with that parent as its
\* parent and g = g(parent) + Euclidean(parent, child); any other child is
\* pushed with parent = the expanded node and g = g(current) + 1; the g of a
\* pushed child is the cost of the parent chain it carries.
C16_ThetaParentAndCost ==
    [][(pc = "search" /\ open_list # <<>> /\ ValidEndpoints) =>
          \A k \in 1..Len(open_list') :
              (\A j \in 1..Len(open_list) : open_list[j] # open_list'[k])
                  => ThetaChild(open_list[1], open_list'[k])]_vars

\* the steps of a sequence of cells that change both coordinates
DiagonalSteps(t) ==
    Cardinality({i \in 1..(Len(t) - 1) : t[i][1] # t[i + 1][1] /\ t[i][2] # t[i + 1][2]})

\* p lies in the bounding rectangle of a and b
InRectangle(p, a, b) ==
    /\ Min2(a[1], b[1]) <= p[1] /\ p[1] <= Max2(a[1], b[1])
    /\ Min2(a[2], b[2]) <= p[2] /\ p[2] <= Max2(a[2], b[2])

\* C17: line_of_sight(grid, A, B) tests only cells of the traversal from A
\* to B: no tested cell lies outside the bounding rectangle of A and B, and
\* a walk that is not cut short ends with the test of B after exactly
\* 1 + dx + dy - k tests, k being the number of diagonal steps.
C17_TestsOnlyTraversal ==
    pc = "los_done" =>
        LET t == tested_cells(grid, start, end)
        IN /\ \A i \in 1..Len(t) : InRectangle(t[i], start, end)
           /\ los[1] =>
                 /\ t[Len(t)] = end
                 /\ Len(t) = 1 + Abs(end[1] - start[1]) + Abs(end[2] - start[2])
                               - DiagonalSteps(t)

\* C18: a popped node whose cell is already closed is discarded without
\* generating neighbours: the step only removes it from the open list, so
\* no cell is expanded more than once.
C18_ClosedCheckAtPop ==
    [][(pc = "search" /\ open_list # <<>> /\ ValidEndpoints
          /\ open_list[1].position \in closed_list) =>
          /\ open_list' = heappop(open_list)
          /\ pc' = "search"
          /\ path' = path]_vars

\* C19: for every path of integer cells and every max_length > 0, every
\* consecutive pair of waypoints returned by split_long_segments is at most
\* max_length apart.
C19_SplitWithinMaxLength ==
    pc = "split_done" =>
        \A i \in 1..(Len(optimized) - 1) :
            Dist2(optimized[i], optimized[i + 1]) <= params.max_length * params.max_length

\* the length of the path of a walker, summed as process_path sums it
TotalLength(segs) ==
    IF segs = <<>> THEN 0
    ELSE segs[Len(segs)].distance_from_start + segs[Len(segs)].length

\* the point of the polyline through wps at arc length s past waypoint i
RECURSIVE PolylinePoint(_, _, _)
PolylinePoint(wps, i, s) ==
    IF i >= Len(wps) THEN wps[Len(wps)]
    ELSE LET length == ISqrt(Dist2(wps[i], wps[i + 1]))
         IN IF s < length
            THEN <<wps[i][1] + ((wps[i + 1][1] - wps[i][1]) * s) \div length,
                   wps[i][2] + ((wps[i + 1][2] - wps[i][2]) * s) \div length>>
            ELSE PolylinePoint(wps, i + 1, s - length)

\* C20: after any sequence of calls move(d) with d >= 0 on a PathWalker over
\* segments of total length L, no call has divided by zero (zero-length
\* segments are skipped), distance_traveled is the smaller of L and the sum
\* of the distances asked, it never decreases and never exceeds L,
\* current_segment_idx is at most the number of segments, and
\* current_position is the point of the polyline at that arc length
C20_WalkerFollowsPolyline ==
    [][pc = "walk" =>
         LET L == TotalLength(walker.segments)
         IN /\ ~walker'.raised
            /\ walker'.distance_traveled = Min2(L, requested')
            /\ walker'.distance_traveled >= walker.distance_traveled
            /\ walker'.distance_traveled <= L
            /\ walker'.current_segment_idx <= Len(walker'.segments)
            /\ walker'.segments # <<>> =>
                  walker'.current_position
                    = PolylinePoint(waypoints, 1, walker'.distance_traveled)]_vars

\* two cells one step apart along exactly one axis
Adjacent4(p, q) == Abs(p[1] - q[1]) + Abs(p[2] - q[2]) = 1

RECURSIVE BfsLoop(_, _, _, _)
BfsLoop(g, S, e, d) ==
    IF e \in S THEN d
    ELSE LET T == S \cup {q \in Cells(NumRows(g), NumCols(g)) :
                             Free(g, q) /\ \E p \in S : q \in Neighbours4(p)}
         IN IF T = S THEN -1 ELSE BfsLoop(g, T, e, d + 1)

BfsDistance(g, s, e) == BfsLoop(g, {s}, e, 0)

\* C22: in plain A* mode, with start and goal on in-bounds free cells and a
\* path between them, the returned path has the least number of steps of
\* all 4-connected free paths from start to goal: its number of steps is
\* the breadth-first distance.
C22_PlainShortest ==
    (Returned /\ ~theta /\ ValidEndpoints) =>
        Len(path) - 1 = BfsDistance(grid, start, end)

\* the plain search on DuplicateGrid from (0, 4) to (2, 0), which pops a
\* second entry of a closed cell on its way, has returned its path of 8 steps
C22_Witness ==
    /\ pc = "found" /\ ~theta /\ grid = DuplicateGrid
    /\ start = <<0, 4>> /\ end = <<2, 0>> /\ Len(path) = 9

\* a is b with some entries left out, the others in their order
RECURSIVE SubseqFrom(_, _, _, _)
SubseqFrom(a, b, i, j) ==
    IF i > Len(a) THEN TRUE
    ELSE IF j > Len(b) THEN FALSE
    ELSE IF a[i] = b[j] THEN SubseqFrom(a, b, i + 1, j + 1)
    ELSE SubseqFrom(a, b, i, j + 1)

IsSubseq(a, b) == SubseqFrom(a, b, 1, 1)

\* out starts and ends where in does (and is empty if in is)
KeepsEnds(out, in) ==
    IF in = <<>> THEN out = <<>>
    ELSE out # <<>> /\ out[1] = in[1] /\ out[Len(out)] = in[Len(in)]

\* C23: optimize_path and reverse_optimize_path each return an
\* order-preserving subsequence of their input path that keeps its first
\* and last waypoint, split_long_segments keeps every input waypoint in
\* order, and multi_pass_optimize returns a path with the first and last
\* waypoint of its input, for every grid, path and number of passes.
C23_PassesKeepEnds ==
    /\ pc \in {"optimize_path", "reverse_optimize_path"} =>
          IsSubseq(optimized, path) /\ KeepsEnds(optimized, path)
    /\ pc = "split_long_segments" => IsSubseq(path, optimized)
    /\ pc = "multi_pass_optimize" => KeepsEnds(optimized, path)

\* multi_pass_optimize has split a segment longer than the default
\* max_length on a grid with a blocked cell and returned another path
C23_Witness ==
    /\ pc = "multi_pass_optimize" /\ Len(path) >= 3 /\ optimized # path
    /\ \E i \in 1..(Len(path) - 1) :
          Dist2(path[i], path[i + 1]) > DefaultMaxLength * DefaultMaxLength
    /\ \E q \in Cells(NumRows(grid), NumCols(grid)) : ~Free(grid, q)

\* the least whole number that is at least a / b, for a >= 0 and b > 0
CeilDiv(a, b) == (a + b - 1) \div b

\* C24: for segments of total length L and a lead distance D > 0, in exact
\* arithmetic, smooth_path returns ceil(L - D) samples (L and D in cm) if
\* L > D and none if L <= D; sample k is the midpoint of the points of the
\* polyline at arc lengths k and D + k, and D + k < L: the lead walker is
\* D ahead of the trail walker and has not reached the end.
C24_SmoothSamples ==
    (pc = "smoothed" /\ requested > 0) =>
        LET L == TotalLength(path_segments)
            D == requested
            n == IF L > D THEN CeilDiv(L - D, UnitsPerCm) ELSE 0
        IN /\ Len(smoothed) = n
           /\ \A k \in 0..(n - 1) :
                 LET a == PolylinePoint(waypoints, 1, k * UnitsPerCm)
                     b == PolylinePoint(waypoints, 1, D + k * UnitsPerCm)
                 IN /\ D + k * UnitsPerCm < L
                    /\ smoothed[k + 1] = <<a[1] + b[1], a[2] + b[2]>>

\* two samples or more over a path that turns, L - D not a whole number of
\* centimetres
C24_Witness ==
    /\ pc = "smoothed" /\ requested > 0 /\ Len(smoothed) >= 2
    /\ (TotalLength(path_segments) - requested) % UnitsPerCm # 0
    /\ Len(waypoints) >= 3
    /\ waypoints[1][1] # waypoints[3][1] /\ waypoints[1][2] # waypoints[3][2]

====
